---- MODULE Spec2Model ----
(***************************************************************************)
(* FALCON-Z motion-correction driver (src/falconz).                        *)
(*                                                                         *)
(* Spec     the pipeline driver main(): argument parsing, validation,      *)
(*          standardisation, frame listing, reference and                  *)
(*          start-frame selection, the moving / non-moco split, the        *)
(*          per-frame alignment jobs run by align(), and the assembly      *)
(*          (transform move, copies, merge3d).                             *)
(* SpecSel  the automatic start-frame selection in detail: the NCC sweep   *)
(*          of determine_candidate_frames task by task, the listing of     *)
(*          the ncc directory, the threshold rule and the conversion of    *)
(*          the returned file into an index by main(); run twice on the    *)
(*          same frames (SpecRerun).                                       *)
(* SpecMode the driver for every --mode and iteration schedule.            *)
(* SpecSessions  concurrent invocations and their working folders.         *)
(* SpecSort get_files on the frame names of a long series.                 *)
(* SpecPool the driver on machines of different CPU counts.                *)
(* SpecJobs file_utilities.get_number_of_possible_jobs.                    *)
(* SpecConvert  the loop of ImageConverter.convert over the NIfTI files.   *)
(* SpecLegacy   the selector of the legacy tree, src/src/preProcessing.py. *)
(*                                                                         *)
(* A frame file volNNNN.nii.gz is identified by its number; a file name is *)
(* a record [pre, frame, suf] standing for pre + volNNNN.nii.gz + suf.     *)
(* NCC means are integers; every comparison of the selector is made on     *)
(* cross-multiplied integers, so no division is rounded.                   *)
(***************************************************************************)
EXTENDS Integers, Sequences, FiniteSets, TLC

\* ---- bounds of the model ------------------------------------------------
MaxFrames == 3        \* Spec: frames in the split directory, 2..MaxFrames
MaxSelFrames == 4     \* SpecSel: frames in the split directory
MaxRerunFrames == 3   \* SpecRerun: frames in the split directory
MaxModeFrames == 2    \* SpecMode: frames in the split directory
MaxClock == 2         \* SpecSessions: seconds the clock can advance
MaxSessions == 2      \* SpecSessions: invocations of the pipeline
MaxSeriesFrame == 10000   \* SpecSort: largest frame number of the series
MaxSample == 3        \* SpecSort: names of the series listed together
MaxNcc == 2           \* mean NCC of an ncc image: 0..MaxNcc
MaxNccFail == 1       \* c3d -ncc invocations that leave no image, per sweep
MaxCpu == 3           \* SpecSel, SpecPool: CPUs of the machine, 1..MaxCpu
MainCpu == 2          \* Spec, SpecMode: CPUs of the machine
RerunCpu == 3         \* SpecRerun: CPUs of the machine, 1 or RerunCpu
MaxPoolFrames == 3    \* SpecPool: frames in the split directory
MaxMemoryGb == 64     \* SpecJobs: available memory, 0..MaxMemoryGb in steps of half a GB
MaxThreads == 16      \* SpecJobs: CPUs of the machine, 1..MaxThreads
MaxConvertFiles == 5  \* SpecConvert: NIfTI files in the output directory
MaxLegacyFrames == 4  \* SpecLegacy: frames handed to the selector

\* ---- program constants --------------------------------------------------
AUTO_START_FRAME == 99      \* argparse default of --start_frame
NCC_THRESHOLD_NUM == 1      \* NCC_THRESHOLD = 0.5 = 1/2
NCC_THRESHOLD_DEN == 2
TOP_N == 3                  \* sorted(...)[:3] and the division by 3
PROPORTION_OF_CORES_DEN == 8    \* PROPORTION_OF_CORES = 1 / 8
ZFILL_WIDTH == 4            \* split4d: 'vol' + str(i).zfill(4) + '.nii.gz'
KIB == 1024                 \* the factor of process_memory * 1024 * 1024 * 1024
MINIMUM_RAM_REQUIRED_RIGID == 4
MINIMUM_RAM_REQUIRED_AFFINE == 8
MINIMUM_RAM_REQUIRED_DEFORMABLE == 16
MINIMUM_THREADS_REQUIRED_RIGID == 2
MINIMUM_THREADS_REQUIRED_AFFINE == 4
MINIMUM_THREADS_REQUIRED_DEFORMABLE == 8
LEGACY_NCC_THRESHOLD_NUM == 3   \* src/src/constants.py: NCC_THRESHOLD = 0.6 = 3/5
LEGACY_NCC_THRESHOLD_DEN == 5

MOCO_PREFIX == "moco_"
NCC_PREFIX == "ncc_"
TRANSFORMS_KEYWORD == <<"*warp.nii.gz", "*rigid.mat", "*affine.mat">>
ALLOWED_REGISTRATION_PARADIGMS == {"rigid", "affine", "deformable"}
ALLOWED_MODES == {"cruise", "dash"}
\* an iteration schedule "100x25x10" is kept as its 'x'-separated parts
MULTI_RESOLUTION_SCHEME == <<"100", "25", "10">>
MULTI_RESOLUTION_SCHEME_DASH == <<"100", "25", "10", "0">>

IndexError == "IndexError"
ValueError == "ValueError"
InsufficientInput == "InsufficientInput"
NiftiConverterError == {InsufficientInput}   \* the errors of the input normaliser
NoException == ""
NoFile == [pre |-> "", frame |-> -2, suf |-> "none"]   \* a variable not yet assigned
NoIndex == 0 - 1                                       \* start_frame not yet assigned
NotDisplayed == 0 - 1                                  \* nothing printed yet
NotReturned == 0 - 1                                   \* a function that has not returned
Running == 0 - 1                                       \* exit_code while main runs

VARIABLES
  pc,                     \* position of main()
  nFrames,                \* number of 3-D volumes the normaliser left in split
  reference_frame_index,  \* args.reference_frame_index
  start_supplied,         \* TRUE iff the user passed --start_frame
  args_start_frame,       \* args.start_frame (argparse fills the default)
  registration,           \* args.registration
  mode,                   \* args.mode
  user_iterations,        \* --multi_resolution_iterations as typed, <<>> when absent
  argv_error,             \* what argparse finds wrong with the command line
  cpu_count,              \* logical CPUs of the machine
  displayed_parallel_jobs,  \* display: "Number of motion correction done in parallel"
  dirs,                   \* working directories created so far
  multi_resolution_iterations,  \* args.multi_resolution_iterations, as main leaves it
  invocations,            \* history: the engine command lines the jobs have run
  moco_content,           \* what each file of the moco directory holds
  org_nifti_files,        \* main: sorted list of the split directory
  reference_file,
  candidate_frames,       \* main: org_nifti_files without the reference
  start_frame,
  moving_frames,
  non_moco_frames,
  split_dir, moco_dir, transforms_dir, ncc_dir,   \* directory contents
  jobs,                   \* align: position of each align_single_image task
  failed,                 \* history: frames one of whose engine steps exited non-zero
  selector_ran,           \* history: determine_candidate_frames was called
  files_to_merge,         \* merge3d: the list handed to concat_images
  exit_code,              \* process exit status, -1 while running
  exception,              \* the uncaught exception that ended main, if any
  \* ---- selection in detail (SpecSel) ----
  ncc_mean,               \* environment: mean of the clipped ncc image of each frame
  ncc_fail,               \* environment: frames whose c3d -ncc leaves no image
  njobs,                  \* determine_candidate_frames: worker count asked for
  pool,                   \* size of the WorkerPool, 0 while there is none
  ncc_done,               \* NCC tasks that have completed
  mean_intensities,       \* determine_candidate_frames local
  start_frame_file,       \* value returned by determine_candidate_frames
  run,                    \* 1 or 2: which of the two runs on the same frames
  first_start,            \* start index (or exception) the first run ended with
  \* ---- concurrent invocations (SpecSessions) ----
  clock,                  \* wall clock, in seconds
  sessions,               \* the invocations: position, input, working folder
  fs_dirs,                \* working folders that exist, with the invocations using each
  \* ---- get_files on names of a long series (SpecSort) ----
  glob_result,            \* what glob.glob returned
  get_files_result,       \* what get_files returned
  \* ---- get_number_of_possible_jobs (SpecJobs) ----
  virtual_memory_available,  \* psutil.virtual_memory().available, in half GB
  number_of_jobs,         \* the number of jobs returned
  \* ---- ImageConverter.convert (SpecConvert) ----
  nifti_files,            \* convert: the list of NIfTI files, each with its dimension
  file_iter,              \* convert: position of the iterator of the for loop
  split4d_calls           \* history: the files split4d was called on

vars == <<pc, nFrames, reference_frame_index, start_supplied, args_start_frame,
          registration, org_nifti_files, reference_file, candidate_frames,
          start_frame, moving_frames, non_moco_frames, split_dir, moco_dir,
          transforms_dir, ncc_dir, jobs, failed, selector_ran, files_to_merge,
          exit_code, exception, ncc_mean, ncc_fail, njobs, pool, ncc_done, mean_intensities,
          start_frame_file, run, first_start, mode, user_iterations, argv_error,
          multi_resolution_iterations, invocations, moco_content, clock, sessions,
          fs_dirs, glob_result, get_files_result, cpu_count,
          displayed_parallel_jobs, dirs, virtual_memory_available, number_of_jobs,
          nifti_files, file_iter, split4d_calls>>

\* the command line and the machine; with argVars, what main printed about them
cmdVars == <<nFrames, reference_frame_index, start_supplied, args_start_frame,
             registration, mode, user_iterations, argv_error, cpu_count>>
argVars == <<cmdVars, displayed_parallel_jobs>>
sessVars == <<clock, sessions, fs_dirs>>
sortVars == <<glob_result, get_files_result>>
jobsVars == <<virtual_memory_available, number_of_jobs>>
convVars == <<nifti_files, file_iter, split4d_calls>>
auxVars == <<sessVars, sortVars, jobsVars, convVars>>
histVars == <<multi_resolution_iterations, invocations, moco_content>>
selVars == <<ncc_mean, ncc_fail, njobs, pool, ncc_done, mean_intensities,
             start_frame_file, run, first_start>>

\* ---- file names ---------------------------------------------------------
Vol(i) == [pre |-> "", frame |-> i, suf |-> ""]
basename(f) == f
WithPrefix(p, f) == [pre |-> p \o f.pre, frame |-> f.frame, suf |-> f.suf]
WithSuffix(f, s) == [pre |-> f.pre, frame |-> f.frame, suf |-> f.suf \o s]
\* moco_4D.nii.gz: no frame number; "4" sorts before "v", so it lists first
MOCO_4D_FILE_NAME == [pre |-> MOCO_PREFIX, frame |-> 0 - 1, suf |-> ""]

NiiGzSuffixes == {"", "_warp.nii.gz", "_inverse_warp.nii.gz"}

\* fnmatch of the wildcards the driver uses against a name
Matches(f, wildcard) ==
  CASE wildcard = "*.nii"        -> FALSE   \* every volume is written as .nii.gz
    [] wildcard = "*.nii.gz"     -> f.suf \in NiiGzSuffixes
    [] wildcard = "moco_*"       -> f.pre = MOCO_PREFIX
    [] wildcard = "ncc_*.nii.gz" -> f.pre = NCC_PREFIX /\ f.suf \in NiiGzSuffixes
    [] wildcard = "*warp.nii.gz" -> f.suf \in {"_warp.nii.gz", "_inverse_warp.nii.gz"}
    [] wildcard = "*rigid.mat"   -> f.suf = "_rigid.mat"
    [] wildcard = "*affine.mat"  -> f.suf = "_affine.mat"
    [] OTHER                     -> FALSE

SufRank(s) ==
  CASE s = ""                     -> 0
    [] s = "_affine.mat"          -> 1
    [] s = "_inverse_warp.nii.gz" -> 2
    [] s = "_rigid.mat"           -> 3
    [] s = "_warp.nii.gz"         -> 4
    [] OTHER                      -> 5

\* str(i): the decimal digits of i >= 0
RECURSIVE str(_)
str(i) == IF i < 10 THEN <<i>> ELSE str(i \div 10) \o <<i % 10>>

\* s.zfill(width): zeros on the left up to the width, nothing cut
zfill(digits, width) ==
  IF Len(digits) >= width THEN digits
  ELSE [k \in 1..(width - Len(digits)) |-> 0] \o digits

\* the digits of the name split4d gives frame i
VolDigits(i) == zfill(str(i), ZFILL_WIDTH)

\* Python's < on two digit strings that are each followed by '.', which sorts
\* before every digit: the first differing character decides, a proper prefix
\* is the smaller
RECURSIVE StrLess(_, _)
StrLess(a, b) ==
  IF a = <<>> THEN b # <<>>
  ELSE IF b = <<>> THEN FALSE
  ELSE IF Head(a) = Head(b) THEN StrLess(Tail(a), Tail(b))
  ELSE Head(a) < Head(b)

\* numeric_sort_key: the first number in the file name (no caller uses it)
numeric_sort_key(f) == f.frame

\* string order of two names of one directory listing: moco_4D before
\* moco_vol..., then the digits, then the suffix after .nii.gz
NameLess(a, b) ==
  IF a.frame < 0 \/ b.frame < 0 THEN a.frame < b.frame
  ELSE \/ StrLess(VolDigits(a.frame), VolDigits(b.frame))
       \/ a.frame = b.frame /\ SufRank(a.suf) < SufRank(b.suf)

\* ---- Python list operations --------------------------------------------
Range(s) == {s[i] : i \in 1..Len(s)}

\* every order in which the directory scan may return the elements of S
Enumerations(S) ==
  {s \in [1..Cardinality(S) -> S] : \A i, j \in 1..Cardinality(S) : s[i] = s[j] => i = j}

\* glob.glob(os.path.join(dir, wildcard)): the matching names, in any order
glob(dir, wildcard) == Enumerations({f \in dir : Matches(f, wildcard)})

sorted(list) == SortSeq(list, NameLess)

\* mutant: the listing is used in the order the directory scan returned it
get_files_unsorted(listing) == listing
\* file_utilities.get_files, applied to what glob returned
get_files(listing) == sorted(listing)

\* list[i] with Python's negative indices; IndexError outside -len..len-1
PyIndexRaises(list, i) == ~(i < Len(list) /\ -i <= Len(list))
PyIndex(list, i) == IF i >= 0 THEN list[i + 1] ELSE list[Len(list) + i + 1]

IndexOf(list, x) == CHOOSE i \in 1..Len(list) :
                      list[i] = x /\ \A j \in 1..(i - 1) : list[j] # x

\* list.remove(x): drops the first occurrence; ValueError when x is absent
PyRemoveRaises(list, x) == x \notin Range(list)
PyRemove(list, x) ==
  LET k == IndexOf(list, x)
  IN  SubSeq(list, 1, k - 1) \o SubSeq(list, k + 1, Len(list))

\* list.index(x), 0-based
PyListIndex(list, x) == IndexOf(list, x) - 1

Min(a, b) == IF a < b THEN a ELSE b

\* list[start:] and list[:start] for start >= 0
SliceFrom(list, start) == SubSeq(list, start + 1, Len(list))
SliceTo(list, start) == SubSeq(list, 1, Min(start, Len(list)))

\* ---- image_processing.determine_candidate_frames, pure parts -----------
RECURSIVE SumSeq(_)
SumSeq(s) == IF s = <<>> THEN 0 ELSE Head(s) + SumSeq(Tail(s))

\* calc_voxelwise_ncc_images: the image is named after image2 up to its first dot
NccImage(image2) == [pre |-> NCC_PREFIX, frame |-> image2.frame, suf |-> ""]

\* calc_mean_intensity: reads the image; content is the mean the engine wrote
calc_mean_intensity(ncc_image, content) == content[ncc_image.frame]

MeanIntensities(ncc_images, content) ==
  [i \in 1..Len(ncc_images) |-> calc_mean_intensity(ncc_images[i], content)]

SortedReverse(values) == SortSeq(values, LAMBDA a, b : a > b)

\* sum(sorted(mean_intensities, reverse=True)[:3]) / 3, kept as a fraction
max_observed_ncc(means) ==
  [num |-> SumSeq(SubSeq(SortedReverse(means), 1, Min(TOP_N, Len(means)))),
   den |-> TOP_N]

\* mean_intensity > NCC_THRESHOLD * max_observed_ncc
AboveThreshold(mean_intensity, anchor) ==
  mean_intensity * NCC_THRESHOLD_DEN * anchor.den > NCC_THRESHOLD_NUM * anchor.num

\* [i for i, m in enumerate(mean_intensities) if m > NCC_THRESHOLD * max], 0-based
CandidateIndices(means) ==
  LET positions == [i \in 1..Len(means) |-> i - 1]
  IN  SelectSeq(positions,
                LAMBDA i : AboveThreshold(means[i + 1], max_observed_ncc(means)))

\* return candidate_files[candidate_frames[0]]
SelectorRaises(means) == CandidateIndices(means) = <<>>
SelectorReturn(candidate_files, means) ==
  PyIndex(candidate_files, CandidateIndices(means)[1])

\* round(n_jobs / 2): Python rounds a half to the even neighbour
PyRoundHalf(n) ==
  LET q == n \div 2
  IN  IF n % 2 = 0 THEN q ELSE IF q % 2 = 0 THEN q ELSE q + 1

\* WorkerPool(njobs): a falsy njobs makes the pool use cpu_count workers
WorkerPoolSize(n, cpu) == IF n = 0 THEN cpu ELSE n

\* ---- falconz.main: the frame split --------------------------------------
\* moving_frames = org_nifti_files[start_frame:]; moving_frames.remove(reference_file)
\* mutant: the slice takes every frame
MovingSliceFromFirst(org, start) == SliceFrom(org, 0)
\* mutant: the slice starts one frame late
MovingSliceFromNext(org, start) == SliceFrom(org, start + 1)
MovingSlice(org, start) == SliceFrom(org, start)
\* mutant: the reference stays in the moving list
MovingFramesKeepReference(org, start, ref) == MovingSlice(org, start)
MovingFrames(org, start, ref) == PyRemove(MovingSlice(org, start), ref)

\* mutant: the slice runs through the start frame
NonMocoThroughStart(org, start) == SliceTo(org, start + 1)
\* non_moco_frames = org_nifti_files[:start_frame]
NonMocoFrames(org, start) == SliceTo(org, start)

\* ---- image_processing.ImageRegistration --------------------------------
\* mutant: the transform paths are named after the fixed image
transform_files_of_fixed(moving_img) ==
  [rigid        |-> WithSuffix(reference_file, "_rigid.mat"),
   affine       |-> WithSuffix(reference_file, "_affine.mat"),
   warp         |-> WithSuffix(reference_file, "_warp.nii.gz"),
   inverse_warp |-> WithSuffix(reference_file, "_inverse_warp.nii.gz")]
\* set_moving_image: transform paths next to the moving image
transform_files(moving_img) ==
  [rigid        |-> WithSuffix(moving_img, "_rigid.mat"),
   affine       |-> WithSuffix(moving_img, "_affine.mat"),
   warp         |-> WithSuffix(moving_img, "_warp.nii.gz"),
   inverse_warp |-> WithSuffix(moving_img, "_inverse_warp.nii.gz")]

\* mutant: the affine matrix is listed before the warp
ResampleTransformsAffineFirst(moving_img, registration_type) ==
  CASE registration_type = "rigid"      -> <<transform_files(moving_img).rigid>>
    [] registration_type = "affine"     -> <<transform_files(moving_img).affine>>
    [] registration_type = "deformable" -> <<transform_files(moving_img).affine,
                                             transform_files(moving_img).warp>>
\* the transforms resample() hands to _build_cmd, in the order of the -r options
ResampleTransforms(moving_img, registration_type) ==
  CASE registration_type = "rigid"      -> <<transform_files(moving_img).rigid>>
    [] registration_type = "affine"     -> <<transform_files(moving_img).affine>>
    [] registration_type = "deformable" -> <<transform_files(moving_img).warp,
                                             transform_files(moving_img).affine>>

\* align_single_image: the resampled image path
ResampledPath(moving_img) == WithPrefix(MOCO_PREFIX, basename(moving_img))

\* mutant: subprocess.run(..., check=True)
SubprocessRaisesOnFailure(ok) == ~ok
\* subprocess.run(cmd, shell=True, capture_output=True): no check=True, so a
\* non-zero exit status raises nothing
SubprocessRaises(ok) == FALSE

\* exit statuses the engine can return: it cannot succeed without its inputs
EngineOutcomes(inputs, dir) == IF inputs \subseteq dir THEN BOOLEAN ELSE {FALSE}

\* =========================================================================
\* falconz.main
\* =========================================================================
Frames == 0..(nFrames - 1)

SelIdle ==
  /\ ncc_mean = <<>> /\ ncc_fail = {} /\ njobs = 0 /\ pool = 0 /\ ncc_done = {}
  /\ mean_intensities = <<>> /\ start_frame_file = NoFile
  /\ run = 1 /\ first_start = NoIndex

\* argparse: default=constants.MULTI_RESOLUTION_SCHEME
ParsedIterations(typed) == IF typed = <<>> THEN MULTI_RESOLUTION_SCHEME ELSE typed

SessIdle == clock = 0 /\ sessions = <<>> /\ fs_dirs = {}
SortIdle == glob_result = <<>> /\ get_files_result = <<>>
JobsIdle == virtual_memory_available = 0 /\ number_of_jobs = NotReturned
ConvIdle == nifti_files = <<>> /\ file_iter = 0 /\ split4d_calls = {}

MainStart ==
  /\ split_dir = {}
  /\ multi_resolution_iterations = ParsedIterations(user_iterations)
  /\ invocations = {} /\ moco_content = <<>>
  /\ displayed_parallel_jobs = NotDisplayed /\ dirs = {}
  /\ moco_dir = {} /\ transforms_dir = {} /\ ncc_dir = {}
  /\ org_nifti_files = <<>> /\ reference_file = NoFile /\ candidate_frames = <<>>
  /\ start_frame = NoIndex /\ moving_frames = <<>> /\ non_moco_frames = <<>>
  /\ jobs = <<>> /\ failed = {} /\ selector_ran = FALSE /\ files_to_merge = <<>>
  /\ exit_code = Running /\ exception = NoException

\* what argparse can find wrong with the command line
ArgvErrors == {"bad_integer", "unknown_paradigm"}
\* the values given to --multi_resolution_iterations
UserSchedules == {<<>>, <<"200", "50">>, <<"fast">>}

\* the command line and the input: minFrames..maxFrames volumes, a mode and a
\* schedule among the given ones
InitArgs(minFrames, maxFrames, modes, schedules) ==
  /\ pc = "parse"
  /\ nFrames \in minFrames..maxFrames
  /\ cpu_count = MainCpu
  /\ argv_error \in {"none"} \cup ArgvErrors
  /\ reference_frame_index \in IF argv_error = "none" THEN (0 - 2)..nFrames ELSE {0 - 1}
  /\ start_supplied \in IF argv_error = "none" THEN BOOLEAN ELSE {FALSE}
  /\ args_start_frame \in IF start_supplied
                          THEN (0 - 1)..nFrames \cup {AUTO_START_FRAME}
                          ELSE {AUTO_START_FRAME}
  /\ registration \in IF argv_error = "none" THEN ALLOWED_REGISTRATION_PARADIGMS
                                             ELSE {"rigid"}
  /\ mode \in IF argv_error = "none" THEN modes ELSE {"cruise"}
  /\ user_iterations \in IF argv_error = "none" THEN schedules ELSE {<<>>}
  /\ MainStart
  /\ SelIdle /\ SessIdle /\ SortIdle /\ JobsIdle /\ ConvIdle

\* Spec: the defaults of --mode and --multi_resolution_iterations
Init == InitArgs(1, MaxFrames, {"cruise"}, {<<>>})

\* an uncaught exception ends the interpreter with status 1
Raise(exc) == pc' = "crashed" /\ exception' = exc /\ exit_code' = 1

\* sys.exit(status), here from the handler of exception exc
SysExit(status, exc) == pc' = "exited" /\ exception' = exc /\ exit_code' = status

mainFrame == <<org_nifti_files, reference_file, candidate_frames, start_frame,
               moving_frames, non_moco_frames, moco_dir, transforms_dir, ncc_dir, jobs,
               failed, selector_ran, files_to_merge>>

\* main, lines 64-109: parser.parse_args() reports a bad command line with
\* parser.error, which exits with status 2
ParseArgs ==
  /\ pc = "parse"
  /\ IF argv_error # "none"
     THEN SysExit(2, NoException)
     ELSE pc' = "validate" /\ UNCHANGED <<exception, exit_code>>
  /\ UNCHANGED <<argVars, auxVars, histVars, selVars, mainFrame, split_dir, dirs>>

\* str.isdigit on the parts of the schedules
isdigit(part) == part \in {"0", "10", "25", "50", "100", "200"}

\* InputValidation._check_multi_resolution_iterations
ScheduleIsNumeric(schedule) == \A k \in 1..Len(schedule) : isdigit(schedule[k])

\* mutant: the dash preset is never applied
IterationsAsGiven(m, given) == given
\* main, lines 113-114
IterationsFor(m, given) == IF m = "dash" THEN MULTI_RESOLUTION_SCHEME_DASH ELSE given

\* main, lines 110-114: InputValidation.validate (the checks that read the
\* modelled arguments), then the schedule of the mode
Validate ==
  /\ pc = "validate"
  /\ IF \/ reference_frame_index < 0 - 1
        \/ args_start_frame < 0
        \/ ~ScheduleIsNumeric(multi_resolution_iterations)
     THEN Raise(ValueError) /\ UNCHANGED multi_resolution_iterations
     ELSE /\ multi_resolution_iterations' = IterationsFor(mode, multi_resolution_iterations)
          /\ pc' = "display"
          /\ UNCHANGED <<exception, exit_code>>
  /\ UNCHANGED <<argVars, auxVars, invocations, moco_content, selVars, org_nifti_files, reference_file, candidate_frames,
                 start_frame, moving_frames, non_moco_frames, split_dir, moco_dir,
                 transforms_dir, ncc_dir, jobs, failed, selector_ran, files_to_merge, dirs>>

\* int(avail_threads * constants.PROPORTION_OF_CORES)
ParallelJobsDisplayed(avail_threads) == avail_threads \div PROPORTION_OF_CORES_DEN

\* main, line 133: display.derived_parameters prints the parallel degree
DerivedParameters ==
  /\ pc = "display"
  /\ displayed_parallel_jobs' = ParallelJobsDisplayed(cpu_count)
  /\ pc' = "standardize"
  /\ UNCHANGED <<cmdVars, auxVars, histVars, selVars, mainFrame, split_dir, dirs,
                 exit_code, exception>>

\* the input normaliser on an input of n 3-D volumes: motion correction needs
\* two frames, a sole 3-D volume is refused
NiftiConverter(n) == IF n < 2 THEN InsufficientInput ELSE NoException

\* mutant: the handler logs the error and main goes on
ExceptHandlerPasses(exc) == FALSE
\* main, lines 191-196: except NiftiConverterError ... sys.exit(1)
ExceptHandlerExits(exc) == exc \in NiftiConverterError

\* main, lines 165-196: the working folders and the standardisation of the
\* input; the volumes are written as split4d names them
Standardize ==
  /\ pc = "standardize"
  /\ dirs' = dirs \cup {"falcon", "split"}
  /\ IF ExceptHandlerExits(NiftiConverter(nFrames))
     THEN SysExit(1, NiftiConverter(nFrames)) /\ UNCHANGED split_dir
     ELSE /\ split_dir' = IF NiftiConverter(nFrames) = NoException
                          THEN {Vol(i) : i \in Frames} ELSE split_dir
          /\ pc' = "list"
          /\ UNCHANGED <<exception, exit_code>>
  /\ UNCHANGED <<argVars, auxVars, histVars, selVars, mainFrame>>

\* main, lines 202-207: list the frames, pick the reference, build the candidates
ListFrames ==
  /\ pc = "list"
  /\ \E nii \in glob(split_dir, "*.nii"), niigz \in glob(split_dir, "*.nii.gz") :
       LET org == IF Len(get_files(nii)) = 0 THEN get_files(niigz) ELSE get_files(nii)
       IN  /\ org_nifti_files' = org
           /\ IF PyIndexRaises(org, reference_frame_index)
              THEN /\ Raise(IndexError)
                   /\ UNCHANGED <<reference_file, candidate_frames>>
              ELSE /\ reference_file' = PyIndex(org, reference_frame_index)
                   /\ candidate_frames' = PyRemove(org, PyIndex(org, reference_frame_index))
                   /\ pc' = "select"
                   /\ UNCHANGED <<exception, exit_code>>
  /\ UNCHANGED <<argVars, auxVars, histVars, selVars, start_frame, moving_frames, non_moco_frames,
                 split_dir, moco_dir, transforms_dir, ncc_dir, jobs, failed,
                 selector_ran, files_to_merge, dirs>>

\* main, line 208 with the test of line 210 false
UseGivenStartFrame ==
  /\ pc = "select"
  /\ args_start_frame # AUTO_START_FRAME
  /\ start_frame' = args_start_frame
  /\ pc' = "split"
  /\ UNCHANGED <<argVars, auxVars, histVars, selVars, org_nifti_files, reference_file, candidate_frames,
                 moving_frames, non_moco_frames, split_dir, moco_dir, transforms_dir,
                 ncc_dir, jobs, failed, selector_ran, files_to_merge, exit_code,
                 exception, dirs>>

\* NCC sweeps the environment allows: the image means, and the candidates whose
\* c3d -ncc leaves no image
NccFailures(candidates) ==
  {F \in SUBSET Range(candidates) : Cardinality(F) <= MaxNccFail}

\* main, lines 210-215, with determine_candidate_frames run as one step (SpecSel
\* runs it task by task)
AutoSelectStartFrame ==
  /\ pc = "select"
  /\ args_start_frame = AUTO_START_FRAME
  /\ selector_ran' = TRUE
  /\ dirs' = dirs \cup {"ncc"}
  /\ \E content \in [Range(candidate_frames) -> 0..MaxNcc],
        fail \in NccFailures(candidate_frames) :
       LET written == {NccImage(c) : c \in Range(candidate_frames) \ fail}
       IN  /\ ncc_dir' = written
           /\ \E listing \in glob(written, "ncc_*.nii.gz") :
                LET contentOf == [i \in Frames |->
                                    IF Vol(i) \in DOMAIN content THEN content[Vol(i)] ELSE 0]
                    means == MeanIntensities(get_files(listing), contentOf)
                IN  IF SelectorRaises(means)
                    THEN Raise(IndexError) /\ UNCHANGED start_frame
                    ELSE /\ start_frame' = PyListIndex(org_nifti_files,
                                              SelectorReturn(candidate_frames, means))
                         /\ pc' = "split"
                         /\ UNCHANGED <<exception, exit_code>>
  /\ UNCHANGED <<argVars, auxVars, histVars, selVars, org_nifti_files, reference_file, candidate_frames,
                 moving_frames, non_moco_frames, split_dir, moco_dir, transforms_dir,
                 jobs, failed, files_to_merge>>

\* main, lines 217-230: the moving / non-moco split, then the moco directory
SplitFrames ==
  /\ pc = "split"
  /\ IF PyRemoveRaises(MovingSlice(org_nifti_files, start_frame), reference_file)
     THEN /\ Raise(ValueError)
          /\ UNCHANGED <<moving_frames, non_moco_frames, jobs, dirs>>
     ELSE /\ dirs' = dirs \cup {"moco"}
          /\ moving_frames' = MovingFrames(org_nifti_files, start_frame, reference_file)
          /\ non_moco_frames' = NonMocoFrames(org_nifti_files, start_frame)
          /\ jobs' = [f \in Range(MovingFrames(org_nifti_files, start_frame,
                                               reference_file)) |-> "pending"]
          /\ pc' = "align"
          /\ UNCHANGED <<exception, exit_code>>
  /\ UNCHANGED <<argVars, auxVars, histVars, selVars, org_nifti_files, reference_file, candidate_frames,
                 start_frame, split_dir, moco_dir, transforms_dir, ncc_dir, failed,
                 selector_ran, files_to_merge>>

\* ---- image_processing.align: one dask task per moving frame ------------
\* The engine command lines: the schedule given with -n, the files named as
\* inputs and the files named as outputs.
\* dof is the value of -dof (0: the option is absent), it the file given with
\* -it, r the files given with -r, in command-line order.
\* -a -i fixed moving -ia-image-centers -dof 6 -o rigid -n ...
RigidCmd(fixed_img, moving_img, n) ==
  [step |-> "rigid", n |-> n, dof |-> 6, it |-> NoFile, r |-> <<>>,
   reads |-> {fixed_img, moving_img},
   writes |-> {transform_files(moving_img).rigid}]

\* -a -i fixed moving -ia-image-centers -dof 12 -o affine -n ...
AffineCmd(fixed_img, moving_img, n) ==
  [step |-> "affine", n |-> n, dof |-> 12, it |-> NoFile, r |-> <<>>,
   reads |-> {fixed_img, moving_img},
   writes |-> {transform_files(moving_img).affine}]

\* -i fixed moving -it affine -o warp -oinv inverse_warp -sv -n ...
DeformableCmd(fixed_img, moving_img, n) ==
  [step |-> "deformable", n |-> n, dof |-> 0,
   it |-> transform_files(moving_img).affine, r |-> <<>>,
   reads |-> {fixed_img, moving_img, transform_files(moving_img).affine},
   writes |-> {transform_files(moving_img).warp, transform_files(moving_img).inverse_warp}]

\* _build_cmd: -rf fixed -rm moving resampled -r transform ...; no -n
ResampleCmd(fixed_img, moving_img, resampled_moving_img, registration_type) ==
  [step |-> "resample", n |-> <<>>, dof |-> 0, it |-> NoFile,
   r |-> ResampleTransforms(moving_img, registration_type),
   reads |-> {fixed_img, moving_img}
             \cup Range(ResampleTransforms(moving_img, registration_type)),
   writes |-> {resampled_moving_img}]

\* The dask scheduler align() leaves to its default: the threaded one, with
\* as many worker threads as the machine has CPUs.
\* compute(*tasks): no scheduler and no num_workers argument
NumWorkers(cpu) == cpu

\* the tasks a worker thread is executing
RunningTasks == {f \in DOMAIN jobs : jobs[f] \in {"started", "affine_done", "registered"}}

\* the files of the split and moco directories a command can read
Readable == split_dir \cup moco_dir

\* what an engine call leaves behind: its outputs when it exits 0, and an
\* exception in the task only if subprocess.run raises
EngineCall(f, cmd, ok, next) ==
  /\ failed' = IF ok THEN failed ELSE failed \cup {f}
  /\ invocations' = invocations \cup
                    {[job |-> f, cmd |-> cmd, ok |-> ok,
                      k |-> Cardinality({i \in invocations : i.job = f}) + 1]}
  /\ IF SubprocessRaises(ok)
     THEN Raise("CalledProcessError") /\ UNCHANGED jobs
     ELSE jobs' = [jobs EXCEPT ![f] = next] /\ UNCHANGED <<pc, exception, exit_code>>

alignFrame == <<argVars, auxVars, selVars, org_nifti_files, reference_file, candidate_frames,
                start_frame, moving_frames, non_moco_frames, transforms_dir, ncc_dir,
                selector_ran, files_to_merge, multi_resolution_iterations, dirs>>

\* the content of a volume of the split directory, and of a resampled volume
VolumeOf(f) == [kind |-> "volume", of |-> f]
ResampledFrom(f) == [kind |-> "resampled", of |-> f]

\* a file is created or overwritten
WriteFile(content, path, data) ==
  [q \in DOMAIN content \cup {path} |-> IF q = path THEN data ELSE content[q]]

\* a free worker thread takes a task: align_single_image starts
TaskStart(f) ==
  /\ pc = "align" /\ jobs[f] = "pending"
  /\ Cardinality(RunningTasks) < NumWorkers(cpu_count)
  /\ jobs' = [jobs EXCEPT ![f] = "started"]
  /\ UNCHANGED <<alignFrame, pc, split_dir, moco_dir, failed, exit_code, exception,
                 invocations, moco_content>>

\* ImageRegistration.rigid
Rigid(f) ==
  /\ pc = "align" /\ jobs[f] = "started" /\ registration = "rigid"
  /\ LET cmd == RigidCmd(reference_file, f, multi_resolution_iterations)
     IN  \E ok \in EngineOutcomes(cmd.reads, Readable) :
           /\ split_dir' = IF ok THEN split_dir \cup cmd.writes ELSE split_dir
           /\ EngineCall(f, cmd, ok, "registered")
  /\ UNCHANGED <<alignFrame, moco_dir, moco_content>>

\* ImageRegistration.affine, alone or as the first half of deformable()
Affine(f) ==
  /\ pc = "align" /\ jobs[f] = "started" /\ registration \in {"affine", "deformable"}
  /\ LET cmd == AffineCmd(reference_file, f, multi_resolution_iterations)
     IN  \E ok \in EngineOutcomes(cmd.reads, Readable) :
           /\ split_dir' = IF ok THEN split_dir \cup cmd.writes ELSE split_dir
           /\ EngineCall(f, cmd, ok,
                         IF registration = "affine" THEN "registered" ELSE "affine_done")
  /\ UNCHANGED <<alignFrame, moco_dir, moco_content>>

\* ImageRegistration.deformable after self.affine(): -it reads the affine matrix
Deformable(f) ==
  /\ pc = "align" /\ jobs[f] = "affine_done"
  /\ LET cmd == DeformableCmd(reference_file, f, multi_resolution_iterations)
     IN  \E ok \in EngineOutcomes(cmd.reads, Readable) :
           /\ split_dir' = IF ok THEN split_dir \cup cmd.writes ELSE split_dir
           /\ EngineCall(f, cmd, ok, "registered")
  /\ UNCHANGED <<alignFrame, moco_dir, moco_content>>

\* ImageRegistration.resample, called by align_single_image
Resample(f) ==
  /\ pc = "align" /\ jobs[f] = "registered"
  /\ LET cmd == ResampleCmd(reference_file, f, ResampledPath(f), registration)
     IN  \E ok \in EngineOutcomes(cmd.reads, Readable) :
           /\ moco_dir' = IF ok THEN moco_dir \cup cmd.writes ELSE moco_dir
           /\ moco_content' = IF ok THEN WriteFile(moco_content, ResampledPath(f),
                                                   ResampledFrom(f))
                                    ELSE moco_content
           /\ EngineCall(f, cmd, ok, "done")
  /\ UNCHANGED <<alignFrame, split_dir>>

\* mutant: the tasks are only submitted, nothing waits for them
ComputeReturnsAtOnce(tasks) == TRUE
\* compute(*tasks) blocks until every task has returned its result
ComputeReturns(tasks) == \A f \in DOMAIN tasks : tasks[f] = "done"

\* align returns to main
AlignReturn ==
  /\ pc = "align"
  /\ ComputeReturns(jobs)
  /\ pc' = "clean"
  /\ UNCHANGED <<alignFrame, split_dir, moco_dir, jobs, failed, exit_code, exception,
                 invocations, moco_content>>

\* ---- main, lines 238-263: assembly ---------------------------------------
\* mutant: every file of the split directory is moved
IsAnyFile(f) == TRUE
\* mutant: only the matrices are moved
IsMatrix(f) == Matches(f, "*rigid.mat") \/ Matches(f, "*affine.mat")
IsTransform(f) ==
  \E k \in 1..Len(TRANSFORMS_KEYWORD) : Matches(f, TRANSFORMS_KEYWORD[k])

\* lines 239-247: every file a transform keyword matches moves to transforms
CleanTransforms ==
  /\ pc = "clean"
  /\ dirs' = dirs \cup {"transforms"}
  /\ transforms_dir' = transforms_dir \cup {f \in split_dir : IsTransform(f)}
  /\ split_dir' = {f \in split_dir : ~IsTransform(f)}
  /\ pc' = "copyref"
  /\ UNCHANGED <<argVars, auxVars, histVars, selVars, org_nifti_files, reference_file, candidate_frames,
                 start_frame, moving_frames, non_moco_frames, moco_dir, ncc_dir, jobs,
                 failed, selector_ran, files_to_merge, exit_code, exception>>

\* lines 250-252
CopyReference ==
  /\ pc = "copyref"
  /\ moco_dir' = moco_dir \cup {WithPrefix(MOCO_PREFIX, basename(reference_file))}
  /\ moco_content' = WriteFile(moco_content, WithPrefix(MOCO_PREFIX, basename(reference_file)),
                               VolumeOf(reference_file))
  /\ pc' = "copynon"
  /\ UNCHANGED <<argVars, auxVars, multi_resolution_iterations, invocations, selVars, org_nifti_files, reference_file, candidate_frames,
                 start_frame, moving_frames, non_moco_frames, split_dir, transforms_dir,
                 ncc_dir, jobs, failed, selector_ran, files_to_merge, exit_code,
                 exception, dirs>>

\* shutil.copy of each file of the list to its moco_ name, in list order
RECURSIVE CopyAll(_, _)
CopyAll(content, files) ==
  IF files = <<>> THEN content
  ELSE CopyAll(WriteFile(content, WithPrefix(MOCO_PREFIX, basename(Head(files))),
                         VolumeOf(Head(files))),
               Tail(files))

\* lines 255-258
CopyNonMoco ==
  /\ pc = "copynon"
  /\ moco_dir' = moco_dir \cup {WithPrefix(MOCO_PREFIX, basename(non_moco_frames[i])) :
                                i \in 1..Len(non_moco_frames)}
  /\ moco_content' = CopyAll(moco_content, non_moco_frames)
  /\ pc' = "merge"
  /\ UNCHANGED <<argVars, auxVars, multi_resolution_iterations, invocations, selVars, org_nifti_files, reference_file, candidate_frames,
                 start_frame, moving_frames, non_moco_frames, split_dir, transforms_dir,
                 ncc_dir, jobs, failed, selector_ran, files_to_merge, exit_code,
                 exception, dirs>>

\* line 261, image_conversion.merge3d, and the normal return of main
Merge3d ==
  /\ pc = "merge"
  /\ \E listing \in glob(moco_dir, "moco_*") : files_to_merge' = get_files(listing)
  /\ moco_dir' = moco_dir \cup {MOCO_4D_FILE_NAME}
  /\ moco_content' = WriteFile(moco_content, MOCO_4D_FILE_NAME, [kind |-> "4D", of |-> NoFile])
  /\ pc' = "done"
  /\ exit_code' = 0
  /\ UNCHANGED <<argVars, auxVars, multi_resolution_iterations, invocations, selVars, org_nifti_files, reference_file, candidate_frames,
                 start_frame, moving_frames, non_moco_frames, split_dir, transforms_dir,
                 ncc_dir, jobs, failed, selector_ran, exception, dirs>>

Next ==
  \/ ParseArgs
  \/ Validate
  \/ DerivedParameters
  \/ Standardize
  \/ ListFrames
  \/ UseGivenStartFrame
  \/ AutoSelectStartFrame
  \/ SplitFrames
  \/ \E f \in DOMAIN jobs : TaskStart(f)
  \/ \E f \in DOMAIN jobs : Rigid(f)
  \/ \E f \in DOMAIN jobs : Affine(f)
  \/ \E f \in DOMAIN jobs : Deformable(f)
  \/ \E f \in DOMAIN jobs : Resample(f)
  \/ AlignReturn
  \/ CleanTransforms
  \/ CopyReference
  \/ CopyNonMoco
  \/ Merge3d

Spec == Init /\ [][Next]_vars

\* SpecMode: the same driver, for every mode and schedule
InitMode == InitArgs(2, MaxModeFrames, ALLOWED_MODES, UserSchedules)
SpecMode == InitMode /\ [][Next]_vars

\* SpecPool: the driver on machines of 1..MaxCpu CPUs, reference last, every
\* frame from the first to be aligned or the start frame selected
InitPool ==
  /\ pc = "parse"
  /\ nFrames \in 2..MaxPoolFrames
  /\ cpu_count \in 1..MaxCpu
  /\ argv_error = "none"
  /\ reference_frame_index = 0 - 1
  /\ start_supplied \in BOOLEAN
  /\ args_start_frame = IF start_supplied THEN 0 ELSE AUTO_START_FRAME
  /\ registration \in ALLOWED_REGISTRATION_PARADIGMS
  /\ mode = "cruise" /\ user_iterations = <<>>
  /\ MainStart
  /\ SelIdle /\ SessIdle /\ SortIdle /\ JobsIdle /\ ConvIdle
SpecPool == InitPool /\ [][Next]_vars

\* =========================================================================
\* Automatic start-frame selection in detail (main lines 210-215 and
\* determine_candidate_frames)
\* =========================================================================
\* position the configured reference index selects in a list of n frames
RefPosition(n, index) == IF index < 0 THEN n + index ELSE index

\* The frames decide the NCC sweep: the mean of each candidate's clipped ncc
\* image, and the candidates for which c3d -ncc leaves no image.  Both runs of
\* SpecRerun see the same frames.
SelInit(maxFrames, cpus) ==
  /\ nFrames \in 2..maxFrames
  /\ cpu_count \in cpus
  /\ reference_frame_index \in (0 - 1)..(nFrames - 1)
  /\ start_supplied = FALSE
  /\ args_start_frame = AUTO_START_FRAME
  /\ registration = "rigid"
  /\ mode = "cruise" /\ user_iterations = <<>> /\ argv_error = "none"
  /\ pc = "validate"
  /\ MainStart
  /\ SessIdle /\ SortIdle /\ JobsIdle /\ ConvIdle
  /\ ncc_mean \in {m \in [Frames -> 0..MaxNcc] :
                     m[RefPosition(nFrames, reference_frame_index)] = 0}
  /\ ncc_fail \in {F \in SUBSET (Frames \ {RefPosition(nFrames, reference_frame_index)}) :
                     Cardinality(F) <= MaxNccFail}
  /\ njobs = 0 /\ pool = 0 /\ ncc_done = {}
  /\ mean_intensities = <<>> /\ start_frame_file = NoFile
  /\ run = 1 /\ first_start = NoIndex

InitSel == SelInit(MaxSelFrames, 1..MaxCpu)
InitRerun == SelInit(MaxRerunFrames, {1, RerunCpu})

selFrame == <<argVars, auxVars, histVars, org_nifti_files, reference_file, candidate_frames,
              moving_frames, non_moco_frames, split_dir, moco_dir, transforms_dir,
              jobs, failed, files_to_merge, ncc_mean, ncc_fail, run, first_start>>

\* main lines 211-213 and determine_candidate_frames lines 459-466: the ncc
\* directory and the worker pool
StartSelector ==
  /\ pc = "select"
  /\ args_start_frame = AUTO_START_FRAME
  /\ selector_ran' = TRUE
  /\ dirs' = dirs \cup {"ncc"}
  /\ njobs' = PyRoundHalf(cpu_count)
  /\ pool' = WorkerPoolSize(PyRoundHalf(cpu_count), cpu_count)
  /\ pc' = "ncc"
  /\ UNCHANGED <<selFrame, ncc_dir, ncc_done, mean_intensities, start_frame_file,
                 start_frame, exit_code, exception>>

\* calc_voxelwise_ncc_images: the files one task leaves in the ncc directory
CalcNccWrites(image2, fail) ==
  IF image2.frame \in fail THEN {} ELSE {NccImage(image2)}

\* the pool hands out the tasks in list order, so a task is running only if
\* fewer than `pool` unfinished tasks precede it
Started(c) ==
  Cardinality({d \in Range(candidate_frames) \ ncc_done : d.frame < c.frame}) < pool

\* one task of pool.map completes
NccTask(c) ==
  /\ pc = "ncc"
  /\ c \in Range(candidate_frames) \ ncc_done
  /\ Started(c)
  /\ ncc_dir' = ncc_dir \cup CalcNccWrites(c, ncc_fail)
  /\ ncc_done' = ncc_done \cup {c}
  /\ UNCHANGED <<selFrame, pc, njobs, pool, selector_ran, mean_intensities,
                 start_frame_file, start_frame, exit_code, exception, dirs>>

\* pool.map returns when every task has completed; the pool is closed
PoolJoin ==
  /\ pc = "ncc"
  /\ ncc_done = Range(candidate_frames)
  /\ pool' = 0
  /\ pc' = "means"
  /\ UNCHANGED <<selFrame, ncc_dir, ncc_done, njobs, selector_ran, mean_intensities,
                 start_frame_file, start_frame, exit_code, exception, dirs>>

\* the whole pool.map call as one step
NccSweep ==
  /\ pc = "ncc"
  /\ ncc_dir' = ncc_dir \cup UNION {CalcNccWrites(c, ncc_fail) : c \in Range(candidate_frames)}
  /\ ncc_done' = Range(candidate_frames)
  /\ pool' = 0
  /\ pc' = "means"
  /\ UNCHANGED <<selFrame, njobs, selector_ran, mean_intensities, start_frame_file,
                 start_frame, exit_code, exception, dirs>>

\* determine_candidate_frames lines 469-478
SelectorFinish ==
  /\ pc = "means"
  /\ \E listing \in glob(ncc_dir, "ncc_*.nii.gz") :
       LET means == MeanIntensities(get_files(listing), ncc_mean)
       IN  /\ mean_intensities' = means
           /\ IF SelectorRaises(means)
              THEN Raise(IndexError) /\ UNCHANGED start_frame_file
              ELSE /\ start_frame_file' = SelectorReturn(candidate_frames, means)
                   /\ pc' = "selected"
                   /\ UNCHANGED <<exception, exit_code>>
  /\ UNCHANGED <<selFrame, ncc_dir, ncc_done, njobs, pool, selector_ran, start_frame, dirs>>

\* main line 215
StartIndex ==
  /\ pc = "selected"
  /\ start_frame' = PyListIndex(org_nifti_files, start_frame_file)
  /\ pc' = "split"
  /\ UNCHANGED <<selFrame, ncc_dir, ncc_done, njobs, pool, selector_ran,
                 mean_intensities, start_frame_file, exit_code, exception, dirs>>

NextSel ==
  \/ Validate
  \/ DerivedParameters
  \/ Standardize
  \/ ListFrames
  \/ StartSelector
  \/ NccSweep
  \/ SelectorFinish
  \/ StartIndex

SpecSel == InitSel /\ [][NextSel]_vars

\* the same input is run again in a new working folder
Rerun ==
  /\ run = 1
  /\ pc \in {"split", "crashed"}
  /\ run' = 2
  /\ first_start' = start_frame
  /\ pc' = "validate"
  /\ split_dir' = {}
  /\ ncc_dir' = {}
  /\ org_nifti_files' = <<>> /\ reference_file' = NoFile /\ candidate_frames' = <<>>
  /\ start_frame' = NoIndex
  /\ selector_ran' = FALSE
  /\ exit_code' = Running /\ exception' = NoException
  /\ njobs' = 0 /\ pool' = 0 /\ ncc_done' = {}
  /\ mean_intensities' = <<>> /\ start_frame_file' = NoFile
  /\ multi_resolution_iterations' = ParsedIterations(user_iterations)
  /\ dirs' = {}
  /\ UNCHANGED <<argVars, auxVars, invocations, moco_content, moving_frames,
                 non_moco_frames, moco_dir, transforms_dir, jobs, failed, files_to_merge,
                 ncc_mean, ncc_fail>>

NextRerun ==
  \/ Validate
  \/ DerivedParameters
  \/ Standardize
  \/ ListFrames
  \/ StartSelector
  \/ \E c \in Range(candidate_frames) : NccTask(c)
  \/ PoolJoin
  \/ SelectorFinish
  \/ StartIndex
  \/ Rerun

SpecRerun == InitRerun /\ [][NextRerun]_vars

\* =========================================================================
\* Concurrent invocations and their working folders (constants.py line 70,
\* main lines 165-168, file_utilities.create_directory)
\* =========================================================================
Sessions == 1..MaxSessions
\* --directory of an invocation: a directory name under a parent directory
Inputs == {[parent |-> "data", name |-> "pet1"], [parent |-> "data", name |-> "pet2"],
           [parent |-> "archive", name |-> "pet1"]}

\* the main() variables of this module stay as they are
mainVars == <<pc, argVars, selVars, histVars, mainFrame, split_dir, exit_code, exception,
              sortVars, dirs, jobsVars, convVars>>

\* 'FALCONZ-V02' + '-' + datetime.now().strftime('%Y-%m-%d-%H-%M-%S'): the time
\* of the import, to the second
FALCON_WORKING_FOLDER(now) == [prefix |-> "FALCONZ-V02", time |-> now]

\* os.path.dirname(os.path.normpath(args.directory))
parent_dir(input) == input.parent
\* os.path.join(parent_dir, FALCON_WORKING_FOLDER)
falcon_dir(session) == [parent |-> parent_dir(session.input), folder |-> session.folder]

InitSessions ==
  /\ pc = "parse"
  /\ nFrames = 2 /\ reference_frame_index = 0 - 1 /\ cpu_count = 1
  /\ start_supplied = FALSE /\ args_start_frame = AUTO_START_FRAME
  /\ registration = "rigid" /\ mode = "cruise" /\ user_iterations = <<>>
  /\ argv_error = "none"
  /\ MainStart /\ SelIdle /\ SortIdle /\ JobsIdle /\ ConvIdle
  /\ clock = 0
  /\ fs_dirs = {}
  /\ sessions \in [Sessions -> {[pc |-> "start", input |-> i,
                                 folder |-> [prefix |-> "", time |-> 0 - 1], isdir |-> FALSE] :
                                i \in Inputs}]

\* a second passes
Tick ==
  /\ clock < MaxClock
  /\ clock' = clock + 1
  /\ UNCHANGED <<mainVars, sessions, fs_dirs>>

\* the interpreter starts and imports falconz.constants
ImportConstants(s) ==
  /\ sessions[s].pc = "start"
  /\ sessions' = [sessions EXCEPT ![s].pc = "imported",
                                  ![s].folder = FALCON_WORKING_FOLDER(clock)]
  /\ UNCHANGED <<mainVars, clock, fs_dirs>>

\* create_directory(falcon_dir), line 142: os.path.isdir
CreateDirectoryTest(s) ==
  /\ sessions[s].pc = "imported"
  /\ sessions' = [sessions EXCEPT ![s].pc = "tested",
                                  ![s].isdir = falcon_dir(sessions[s]) \in fs_dirs]
  /\ UNCHANGED <<mainVars, clock, fs_dirs>>

\* create_directory(falcon_dir), line 143: os.makedirs unless the folder was
\* there; makedirs raises FileExistsError when it has appeared since the test
CreateDirectoryMake(s) ==
  /\ sessions[s].pc = "tested"
  /\ IF sessions[s].isdir
     THEN sessions' = [sessions EXCEPT ![s].pc = "working"] /\ UNCHANGED fs_dirs
     ELSE IF falcon_dir(sessions[s]) \in fs_dirs
          THEN sessions' = [sessions EXCEPT ![s].pc = "crashed"] /\ UNCHANGED fs_dirs
          ELSE /\ sessions' = [sessions EXCEPT ![s].pc = "working"]
               /\ fs_dirs' = fs_dirs \cup {falcon_dir(sessions[s])}
  /\ UNCHANGED <<mainVars, clock>>

\* the rest of main, in the working folder
SessionEnds(s) ==
  /\ sessions[s].pc = "working"
  /\ sessions' = [sessions EXCEPT ![s].pc = "done"]
  /\ UNCHANGED <<mainVars, clock, fs_dirs>>

NextSessions ==
  \/ Tick
  \/ \E s \in Sessions : ImportConstants(s)
  \/ \E s \in Sessions : CreateDirectoryTest(s)
  \/ \E s \in Sessions : CreateDirectoryMake(s)
  \/ \E s \in Sessions : SessionEnds(s)

SpecSessions == InitSessions /\ [][NextSessions]_vars

\* =========================================================================
\* get_files on the frame names of a long series (main line 204, merge3d
\* line 264): some names of the listing of a series of MaxSeriesFrame + 1
\* frames, as glob returned them; sorting the whole listing puts them in the
\* order sorting them alone does
\* =========================================================================
SampleFrames == {0, 2, 10, 999, 1000, MaxSeriesFrame - 1, MaxSeriesFrame}
SampleNames(prefix) ==
  {{WithPrefix(prefix, Vol(i)) : i \in S} :
     S \in {T \in SUBSET SampleFrames : Cardinality(T) \in 2..MaxSample}}

InitSort ==
  /\ pc = "glob"
  /\ nFrames = 2 /\ reference_frame_index = 0 - 1 /\ cpu_count = 1
  /\ start_supplied = FALSE /\ args_start_frame = AUTO_START_FRAME
  /\ registration = "rigid" /\ mode = "cruise" /\ user_iterations = <<>>
  /\ argv_error = "none"
  /\ MainStart /\ SelIdle /\ SessIdle
  /\ \E names \in SampleNames("") \cup SampleNames(MOCO_PREFIX) :
       glob_result \in Enumerations(names)
  /\ get_files_result = <<>>
  /\ JobsIdle /\ ConvIdle

\* get_files returns
GetFilesReturn ==
  /\ pc = "glob"
  /\ get_files_result' = get_files(glob_result)
  /\ pc' = "sorted"
  /\ UNCHANGED <<argVars, selVars, histVars, mainFrame, split_dir, exit_code, exception,
                 sessVars, glob_result, dirs, jobsVars, convVars>>

NextSort == GetFilesReturn

SpecSort == InitSort /\ [][NextSort]_vars

\* =========================================================================
\* file_utilities.get_number_of_possible_jobs, called by
\* display.derived_parameters with the minima of the paradigm (SpecJobs)
\* =========================================================================
\* the command line of a driver that is not followed further
ArgsDefault ==
  /\ nFrames = 2 /\ reference_frame_index = 0 - 1
  /\ start_supplied = FALSE /\ args_start_frame = AUTO_START_FRAME
  /\ mode = "cruise" /\ user_iterations = <<>> /\ argv_error = "none"

\* derived_parameters: process_memory and process_threads of the paradigm
ProcessMemory(paradigm) ==
  CASE paradigm = "rigid"      -> MINIMUM_RAM_REQUIRED_RIGID
    [] paradigm = "affine"     -> MINIMUM_RAM_REQUIRED_AFFINE
    [] paradigm = "deformable" -> MINIMUM_RAM_REQUIRED_DEFORMABLE
ProcessThreads(paradigm) ==
  CASE paradigm = "rigid"      -> MINIMUM_THREADS_REQUIRED_RIGID
    [] paradigm = "affine"     -> MINIMUM_THREADS_REQUIRED_AFFINE
    [] paradigm = "deformable" -> MINIMUM_THREADS_REQUIRED_DEFORMABLE

\* x // (process_memory * 1024 * 1024 * 1024) for x >= 0, divided factor by
\* factor: the floor is the same and no intermediate product is needed
FloorDivMinMemory(x, process_memory) ==
  (((x \div process_memory) \div KIB) \div KIB) \div KIB

\* get_number_of_possible_jobs: available is psutil's figure in half GB, so
\* round(available / 1024 / 1024 / 1024) is the rounding of a half
get_number_of_possible_jobs(process_memory, process_threads, available, threads) ==
  LET available_memory == PyRoundHalf(available)
      available_threads == threads
      possible_jobs_memory == FloorDivMinMemory(available_memory, process_memory)
      possible_jobs_threads == available_threads \div process_threads
      number == Min(possible_jobs_memory, possible_jobs_threads)
  IN  [number_of_jobs |-> IF number = 0 THEN 1 ELSE number,
       available_memory |-> available_memory,
       available_threads |-> available_threads]

InitJobs ==
  /\ pc = "jobs"
  /\ ArgsDefault
  /\ registration \in ALLOWED_REGISTRATION_PARADIGMS
  /\ cpu_count \in 1..MaxThreads
  /\ virtual_memory_available \in 0..(2 * MaxMemoryGb)
  /\ number_of_jobs = NotReturned
  /\ MainStart /\ SelIdle /\ SessIdle /\ SortIdle /\ ConvIdle

\* the call returns
GetNumberOfPossibleJobs ==
  /\ pc = "jobs"
  /\ number_of_jobs' = get_number_of_possible_jobs(ProcessMemory(registration),
                                                   ProcessThreads(registration),
                                                   virtual_memory_available,
                                                   cpu_count).number_of_jobs
  /\ pc' = "jobs_returned"
  /\ UNCHANGED <<argVars, selVars, histVars, mainFrame, split_dir, exit_code, exception,
                 sessVars, sortVars, convVars, dirs, virtual_memory_available>>

NextJobs == GetNumberOfPossibleJobs

SpecJobs == InitJobs /\ [][NextJobs]_vars

\* =========================================================================
\* image_conversion.ImageConverter.convert: the loop over the NIfTI files of
\* the output directory (SpecConvert)
\* =========================================================================
\* the lists os.walk can give: files of 3 or 4 dimensions in any order
ConvertInputs ==
  {[i \in 1..n |-> [name |-> i, shape |-> shape[i]]] :
     n \in 1..MaxConvertFiles, shape \in [1..MaxConvertFiles -> {3, 4}]}

InitConvert ==
  /\ pc = "convert"
  /\ ArgsDefault /\ registration = "rigid" /\ cpu_count = 1
  /\ nifti_files \in ConvertInputs
  /\ file_iter = 0
  /\ split4d_calls = {}
  /\ MainStart /\ SelIdle /\ SessIdle /\ SortIdle /\ JobsIdle

convFrame == <<pc, argVars, selVars, histVars, mainFrame, split_dir, exit_code, exception,
               sessVars, sortVars, jobsVars, dirs>>

\* one pass of `for file in nifti_files`: the list iterator yields the element
\* at its position and moves on; a 4-D file is split and removed from the list
\* that is being iterated
ConvertLoop ==
  /\ pc = "convert"
  /\ file_iter < Len(nifti_files)
  /\ LET file == nifti_files[file_iter + 1]
     IN  IF file.shape = 4
         THEN /\ split4d_calls' = split4d_calls \cup {file}
              /\ nifti_files' = PyRemove(nifti_files, file)
         ELSE UNCHANGED <<split4d_calls, nifti_files>>
  /\ file_iter' = file_iter + 1
  /\ UNCHANGED convFrame

\* the iterator is exhausted; lines 250-253: the single-3-D check and the return
ConvertReturn ==
  /\ pc = "convert"
  /\ file_iter >= Len(nifti_files)
  /\ pc' = "converted"
  /\ UNCHANGED <<argVars, selVars, histVars, mainFrame, split_dir, exit_code, exception,
                 sessVars, sortVars, jobsVars, dirs, convVars>>

NextConvert == ConvertLoop \/ ConvertReturn

SpecConvert == InitConvert /\ [][NextConvert]_vars

\* =========================================================================
\* The legacy selector, src/src/preProcessing.determine_candidate_frames
\* (SpecLegacy)
\* =========================================================================
\* fileOp.get_files: glob, then sort by base name
legacy_get_files(listing) == SortSeq(listing, NameLess)

\* mean_intensity > c.NCC_THRESHOLD * max_observed_ncc
LegacyAboveThreshold(mean_intensity, anchor) ==
  mean_intensity * LEGACY_NCC_THRESHOLD_DEN * anchor.den
    > LEGACY_NCC_THRESHOLD_NUM * anchor.num

\* [i for i, mean_intensity in enumerate(mean_intensities) if ...], 0-based
LegacyCandidateIndices(means) ==
  LET positions == [i \in 1..Len(means) |-> i - 1]
  IN  SelectSeq(positions,
                LAMBDA i : LegacyAboveThreshold(means[i + 1], max_observed_ncc(means)))

\* the 3-D files of the series, as the caller lists them
PetFiles(n) == [i \in 1..n |-> Vol(i - 1)]

\* mov_frames = pet_files[:ref_frame_index] + pet_files[ref_frame_index + 1:]
LegacyMovFrames(pet_files, ref_frame_index) ==
  SliceTo(pet_files, ref_frame_index) \o SliceFrom(pet_files, ref_frame_index + 1)

\* the call: a series of 2..MaxLegacyFrames frames, the reference anywhere in
\* it, and the mean of the clipped ncc image of each moving frame
InitLegacy ==
  /\ pc = "legacy"
  /\ nFrames \in 2..MaxLegacyFrames
  /\ reference_frame_index \in 0..(nFrames - 1)
  /\ start_supplied = FALSE /\ args_start_frame = AUTO_START_FRAME
  /\ registration = "rigid" /\ mode = "cruise" /\ user_iterations = <<>>
  /\ argv_error = "none" /\ cpu_count = 1
  /\ MainStart /\ SessIdle /\ SortIdle /\ JobsIdle /\ ConvIdle
  /\ ncc_mean \in {mean \in [Frames -> 0..MaxNcc] : mean[reference_frame_index] = 0}
  /\ ncc_fail = {} /\ njobs = 0 /\ pool = 0 /\ ncc_done = {}
  /\ mean_intensities = <<>> /\ start_frame_file = NoFile
  /\ run = 1 /\ first_start = NoIndex

\* determine_candidate_frames, lines 96-126, as one step
LegacyDetermineCandidateFrames ==
  /\ pc = "legacy"
  /\ LET mov_frames == LegacyMovFrames(PetFiles(nFrames), reference_frame_index)
         written == {NccImage(file) : file \in Range(mov_frames)}
     IN  /\ ncc_dir' = written
         /\ \E listing \in glob(written, "ncc_*.nii.gz") :
              LET means == MeanIntensities(legacy_get_files(listing), ncc_mean)
              IN  /\ mean_intensities' = means
                  /\ IF LegacyCandidateIndices(means) = <<>>
                     THEN Raise(IndexError) /\ UNCHANGED start_frame
                     ELSE /\ start_frame' = LegacyCandidateIndices(means)[1]
                          /\ pc' = "legacy_returned"
                          /\ UNCHANGED <<exception, exit_code>>
  /\ UNCHANGED <<argVars, auxVars, histVars, dirs, split_dir, org_nifti_files,
                 reference_file, candidate_frames, moving_frames, non_moco_frames,
                 moco_dir, transforms_dir, jobs, failed, selector_ran, files_to_merge,
                 ncc_mean, ncc_fail, njobs, pool, ncc_done, start_frame_file, run,
                 first_start>>

NextLegacy == LegacyDetermineCandidateFrames

SpecLegacy == InitLegacy /\ [][NextLegacy]_vars

\* =========================================================================
\* Properties of the driver (Spec)
\* =========================================================================
AfterAlign == {"clean", "copyref", "copynon", "merge", "done"}
Launched == {"align"} \cup AfterAlign
AllFrameFiles == {Vol(i) : i \in Frames}
EveryJobWrote == \A f \in Range(moving_frames) : ResampledPath(f) \in moco_dir

\* C1: in a run on N >= 2 frames in which every alignment job wrote its
\* resampled frame, merge3d concatenates exactly N moco_ files, one per original
\* frame (moving frames, reference copy, non-moco copies).
C1_MergedLengthIsN ==
  (pc = "done" /\ nFrames >= 2 /\ EveryJobWrote)
    => /\ Len(files_to_merge) = nFrames
       /\ Range(files_to_merge) = {WithPrefix(MOCO_PREFIX, f) : f \in AllFrameFiles}

C1_Witness ==
  /\ pc = "done" /\ EveryJobWrote
  /\ Len(moving_frames) >= 1 /\ Len(non_moco_frames) >= 1
  /\ Len(files_to_merge) = nFrames

\* C2: whenever alignment is launched, the reference is the frame at the
\* configured index (-1: the last one), the moving set is the frames at
\* positions >= start other than the reference, the non-moco set is the frames
\* at positions < start other than the reference, and the three parts are
\* pairwise disjoint and cover the sequence; with reference 0 and start 0 the
\* moving frames are 1..N-1 and there is no non-moco frame.
C2_FramePartition ==
  pc \in Launched =>
    LET r == IF reference_frame_index = 0 - 1 THEN nFrames - 1 ELSE reference_frame_index
        M == Range(moving_frames)
        P == Range(non_moco_frames)
    IN  /\ org_nifti_files = [i \in 1..nFrames |-> Vol(i - 1)]
        /\ reference_file = Vol(r)
        /\ M = {Vol(i) : i \in {j \in Frames : j >= start_frame /\ j # r}}
        /\ P = {Vol(i) : i \in {j \in Frames : j < start_frame /\ j # r}}
        /\ M \cap P = {} /\ reference_file \notin M \cup P
        /\ M \cup P \cup {reference_file} = AllFrameFiles
        /\ Len(moving_frames) = Cardinality(M) /\ Len(non_moco_frames) = Cardinality(P)
        /\ (r = 0 /\ start_frame = 0) =>
              /\ moving_frames = [i \in 1..(nFrames - 1) |-> Vol(i)]
              /\ non_moco_frames = <<>>

C2_Witness ==
  /\ pc = "align"
  /\ reference_frame_index = 0 - 1
  /\ start_frame = 1
  /\ Len(moving_frames) = 1 /\ Len(non_moco_frames) = 1

\* C3: a non-zero exit of the register or resample step of one moving frame
\* stops nothing: the run is not aborted, every job still runs to its end before
\* the assembly, every frame whose own steps exited zero has its moco_ file, and
\* the merge runs over the moco_ files that were produced.
C3_FailureIsolated ==
  /\ failed # {} => (pc # "crashed" /\ (pc # "done" => ENABLED Next))
  /\ pc \in AfterAlign =>
       /\ \A f \in Range(moving_frames) : jobs[f] = "done"
       /\ \A f \in Range(moving_frames) \ failed : ResampledPath(f) \in moco_dir
  /\ pc = "done" =>
       /\ Range(files_to_merge) = moco_dir \ {MOCO_4D_FILE_NAME}
       /\ \A f \in Range(moving_frames) \ failed : ResampledPath(f) \in Range(files_to_merge)

C3_Witness ==
  /\ pc = "done"
  /\ failed # {} /\ Range(moving_frames) \ failed # {}
  /\ Len(files_to_merge) = nFrames - Cardinality(failed)

\* C4: when a register or resample step of a moving frame exits non-zero, the
\* pipeline ends with exit code 4 (never 0).
C4_FailureExitsWith4 ==
  (exit_code # Running /\ failed # {}) => exit_code = 4

\* C5: the selector runs if and only if the user supplied no start frame; a
\* supplied non-negative start frame s is the start index of the split.
C5_SelectorIffNotSupplied ==
  /\ selector_ran => ~start_supplied
  /\ pc \in {"split"} \cup Launched =>
       /\ ~start_supplied => selector_ran
       /\ start_supplied => start_frame = args_start_frame

\* =========================================================================
\* Properties of the automatic selection (SpecSel, SpecRerun)
\* =========================================================================
SelectorEnded == {"selected", "split", "crashed"}
Candidates == Range(candidate_frames)
WithImage == {c \in Candidates : c.frame \notin ncc_fail}
NoNccFailure == WithImage = Candidates
\* m_c of a candidate that has an ncc image
m(c) == ncc_mean[c.frame]
AboveAnchor == {c \in WithImage : AboveThreshold(m(c), max_observed_ncc(mean_intensities))}

\* C6: with automatic selection, the start index the driver uses is the
\* position in the full sequence of the first candidate, in index order, whose
\* mean NCC exceeds 0.5 times the selector's anchor, wherever the reference is.
C6_StartIsFirstAboveThreshold ==
  pc = "split" =>
    /\ AboveAnchor # {}
    /\ org_nifti_files[start_frame + 1] \in AboveAnchor
    /\ \A c \in AboveAnchor : start_frame <= PyListIndex(org_nifti_files, c)

\* the same statement for the sweeps in which every candidate got its image
C6_HoldsWhenEveryImageExists == NoNccFailure => C6_StartIsFirstAboveThreshold

MaxOf(values) == CHOOSE v \in Range(values) : \A w \in Range(values) : w <= v

\* the anchor as the claim defines it: mean of the three largest means, or the
\* largest mean when there are fewer than three
SpecifiedAnchor(means) ==
  IF Len(means) >= TOP_N
  THEN [num |-> SumSeq(SubSeq(SortedReverse(means), 1, TOP_N)), den |-> TOP_N]
  ELSE [num |-> MaxOf(means), den |-> 1]

SameFraction(a, b) == a.num * b.den = b.num * a.den

\* C7: the selector's anchor M is the arithmetic mean of the three largest m_c
\* with at least 3 candidates and max(m_c) with 1 or 2 candidates.
C7_AnchorAsSpecified ==
  (pc \in SelectorEnded /\ NoNccFailure /\ mean_intensities # <<>>) =>
    SameFraction(max_observed_ncc(mean_intensities), SpecifiedAnchor(mean_intensities))

\* C8: on a non-empty candidate set with non-negative means the selector
\* returns a candidate and never fails; when no candidate is above the
\* threshold it returns the candidate with the highest m_c.
C8_SelectorAlwaysReturns ==
  (pc \in SelectorEnded /\ NoNccFailure /\ Candidates # {}) =>
    /\ pc # "crashed"
    /\ start_frame_file \in Candidates
    /\ AboveAnchor = {} => \A c \in Candidates : m(c) <= m(start_frame_file)

\* C9: when the NCC image of some candidate is not produced, the selector
\* fails as a whole and returns no start frame.
C9_PartialSweepIsFatal ==
  (pc \in SelectorEnded /\ ~NoNccFailure) =>
    /\ pc = "crashed"
    /\ start_frame_file = NoFile

\* C10: two runs of the automatic selection on the same frames and reference
\* end with the same start index (or both without one), whatever the worker
\* counts and the completion orders of the NCC tasks were.
C10_RerunSameStart ==
  (run = 2 /\ pc \in {"split", "crashed"}) => start_frame = first_start

C10_Witness ==
  /\ run = 2 /\ pc = "split"
  /\ njobs = 2
  /\ Len(candidate_frames) >= 2
  /\ start_frame = first_start /\ start_frame >= 1

\* =========================================================================
\* Properties of the alignment jobs and of the assembly (Spec, SpecMode)
\* =========================================================================
MocoName(f) == WithPrefix(MOCO_PREFIX, f)
\* the frames that are passed through: the non-moco frames and the reference
PassedThrough == Range(non_moco_frames) \cup {reference_file}

\* C11: after assembly, moco_<name> of every frame before the start index and of
\* the reference holds the unmodified volume of that frame of the split
\* directory, and no alignment job names the moco_ path of such a frame as an
\* output.
C11_CopiesAreUnmodified ==
  /\ pc = "done" =>
       \A f \in PassedThrough :
         /\ f \in split_dir /\ MocoName(f) \in moco_dir
         /\ moco_content[MocoName(f)] = VolumeOf(f)
  /\ pc \in Launched =>
       \A inv \in invocations :
         inv.cmd.writes \cap {MocoName(f) : f \in PassedThrough} = {}

C11_Witness ==
  /\ pc = "done"
  /\ Len(non_moco_frames) >= 1
  /\ \E inv \in invocations : inv.cmd.step = "resample" /\ inv.ok
  /\ moco_content[MocoName(reference_file)] = VolumeOf(reference_file)

\* the artifact set of a paradigm for one moving frame
ArtifactsOf(f, paradigm) ==
  CASE paradigm = "rigid"      -> {WithSuffix(f, "_rigid.mat")}
    [] paradigm = "affine"     -> {WithSuffix(f, "_affine.mat")}
    [] paradigm = "deformable" -> {WithSuffix(f, "_affine.mat"), WithSuffix(f, "_warp.nii.gz"),
                                   WithSuffix(f, "_inverse_warp.nii.gz")}
Matrices(dir) == {t \in dir : t.suf \in {"_rigid.mat", "_affine.mat"}}
TransformsMoved == {"copyref", "copynon", "merge", "done"}

\* C12: once the transforms are moved in a run whose engine calls all exited
\* zero, the transforms directory holds exactly the artifact set of the paradigm
\* for each moving frame and nothing else, and the split directory holds no
\* transform file: only the frames; with the reference last and start index 0
\* there are N-1 matrices.
C12_TransformsAreTheArtifactSet ==
  (pc \in TransformsMoved /\ failed = {}) =>
    /\ transforms_dir = UNION {ArtifactsOf(f, registration) : f \in Range(moving_frames)}
    /\ split_dir = AllFrameFiles
    /\ (reference_file = Vol(nFrames - 1) /\ start_frame = 0) =>
          Cardinality(Matrices(transforms_dir)) = nFrames - 1

C12_Witness ==
  /\ pc = "done" /\ failed = {}
  /\ registration = "deformable"
  /\ reference_file = Vol(nFrames - 1) /\ start_frame = 0
  /\ Cardinality(transforms_dir) = 3 * (nFrames - 1)
  /\ nFrames >= 3

RegistrationSteps == {"rigid", "affine", "deformable"}

\* C13: every registration command of the engine carries the schedule
\* 100x25x10x0 in mode dash, whatever schedule was typed, and in mode cruise the
\* typed schedule unchanged, 100x25x10 when none was typed.
C13_ScheduleOfTheMode ==
  \A inv \in invocations :
    inv.cmd.step \in RegistrationSteps =>
      inv.cmd.n = IF mode = "dash" THEN <<"100", "25", "10", "0">>
                  ELSE IF user_iterations = <<>> THEN <<"100", "25", "10">>
                  ELSE user_iterations

C13_Witness ==
  /\ mode = "dash" /\ user_iterations = <<"200", "50">>
  /\ \E inv \in invocations : inv.cmd.step = "deformable"
  /\ \E inv \in invocations : inv.cmd.step = "affine"

\* the other half of the case: cruise with a typed schedule
C13_WitnessCruise ==
  /\ mode = "cruise" /\ user_iterations = <<"200", "50">>
  /\ \E inv \in invocations : inv.cmd.step = "rigid" /\ inv.cmd.n = <<"200", "50">>

AfterIngestion == {"list", "select", "split"} \cup Launched

C15_TwoFramesAlwaysAlign ==
  (nFrames = 2 /\ reference_frame_index \in {0 - 1, 0, 1} /\ args_start_frame >= 0) =>
    /\ ~selector_ran
    /\ pc # "crashed"
    /\ pc \in Launched =>
         /\ Len(moving_frames) = 1
         /\ Range(moving_frames) = AllFrameFiles \ {reference_file}

\* the same with the start frame supplied and the selector left aside
C15_TwoFramesSuppliedStart ==
  (start_supplied /\ args_start_frame # AUTO_START_FRAME) => C15_TwoFramesAlwaysAlign

\* the paths the commands of one job name as outputs, and as inputs
JobWrites(f) == UNION {inv.cmd.writes : inv \in {i \in invocations : i.job = f}}
JobReads(f) == UNION {inv.cmd.reads : inv \in {i \in invocations : i.job = f}}

\* C16: the jobs of two distinct moving frames write disjoint sets of paths
\* (transform files and moco_ output), and no job writes the reference, a frame
\* of the split directory or a path another job reads.
C16_JobsWriteDisjointPaths ==
  pc \in Launched =>
    /\ \A f, g \in DOMAIN jobs :
         f # g => /\ JobWrites(f) \cap JobWrites(g) = {}
                  /\ JobWrites(f) \cap JobReads(g) = {}
    /\ \A f \in DOMAIN jobs :
         /\ reference_file \notin JobWrites(f)
         /\ JobWrites(f) \cap AllFrameFiles = {}

C16_Witness ==
  /\ pc = "clean"
  /\ registration = "deformable"
  /\ Cardinality(DOMAIN jobs) >= 2
  /\ \A f \in DOMAIN jobs : Cardinality(JobWrites(f)) = 4 /\ Cardinality(JobReads(f)) = 4

\* the outputs of the commands of the given steps that exited zero
OkWrites(steps) ==
  UNION {inv.cmd.writes : inv \in {i \in invocations : i.ok /\ i.cmd.step \in steps}}

\* C17: the final contents of the moco and transforms directories and the frame
\* order of the merged output are fixed by the input and by which engine
\* commands exited zero; the interleaving and the completion order of the jobs
\* do not show in them.
C17_FinalStateIgnoresInterleaving ==
  pc = "done" =>
    /\ transforms_dir = OkWrites(RegistrationSteps)
    /\ moco_dir = OkWrites({"resample"}) \cup {MocoName(f) : f \in PassedThrough}
                    \cup {MOCO_4D_FILE_NAME}
    /\ \A f \in PassedThrough : moco_content[MocoName(f)] = VolumeOf(f)
    /\ \A f \in Range(moving_frames) :
         MocoName(f) \in moco_dir => moco_content[MocoName(f)] = ResampledFrom(f)
    /\ Range(files_to_merge) = moco_dir \ {MOCO_4D_FILE_NAME}
    /\ \A i, j \in 1..Len(files_to_merge) :
         i < j => files_to_merge[i].frame < files_to_merge[j].frame

C17_Witness ==
  /\ pc = "done"
  /\ Len(moving_frames) >= 2
  /\ registration = "deformable"
  /\ Len(files_to_merge) = nFrames
  /\ Cardinality(transforms_dir) = 6

\* the outcome classes of a run that has ended
ValidationFailure ==
  \/ argv_error # "none"
  \/ pc = "crashed" /\ exception = ValueError /\ split_dir = {}
IngestionFailure == exception \in NiftiConverterError
SelectionFailure == pc = "crashed" /\ exception = IndexError /\ selector_ran
AlignmentFailure == failed # {}
Success == pc = "done" /\ failed = {}

\* C20: a run that has ended has the exit code of its outcome class: 0 success,
\* 1 validation failure (bad integer, unknown paradigm, bad value), 2 ingestion
\* failure, 3 selection failure, 4 alignment failure.
C20_ExitCodeOfTheClass ==
  exit_code # Running =>
    /\ Success => exit_code = 0
    /\ ValidationFailure => exit_code = 1
    /\ IngestionFailure => exit_code = 2
    /\ SelectionFailure => exit_code = 3
    /\ AlignmentFailure => exit_code = 4

\* the two classes whose code the driver does give
C20_SuccessAndBadValue ==
  exit_code # Running =>
    /\ Success => exit_code = 0
    /\ (pc = "crashed" /\ exception = ValueError /\ split_dir = {}) => exit_code = 1

\* =========================================================================
\* Properties of concurrent invocations (SpecSessions)
\* =========================================================================
\* C18: two invocations that are running in their working folders at the same
\* time, on the same input directory or not, are never in the same folder.
C18_WorkingFolderNotShared ==
  \A s, t \in Sessions :
    (s # t /\ sessions[s].pc = "working" /\ sessions[t].pc = "working") =>
      falcon_dir(sessions[s]) # falcon_dir(sessions[t])

\* the same for invocations started in different seconds
C18_HoldsAcrossSeconds ==
  \A s, t \in Sessions :
    (s # t /\ sessions[s].pc = "working" /\ sessions[t].pc = "working"
       /\ sessions[s].folder.time # sessions[t].folder.time) =>
      falcon_dir(sessions[s]) # falcon_dir(sessions[t])

\* =========================================================================
\* Properties of the listing order (SpecSort)
\* =========================================================================
\* C19: get_files, which lists the frames and the moco_ files to merge, returns
\* the files in the natural-numeric order of their numbers, so that frame i of
\* the series is entry i of the listing and time point i of the merged volume.
C19_ListingIsNaturalNumeric ==
  pc = "sorted" =>
    \A i, j \in 1..Len(get_files_result) :
      i < j => numeric_sort_key(get_files_result[i]) < numeric_sort_key(get_files_result[j])

\* the same for the names whose number fits the padding
C19_HoldsWithinThePadding ==
  (\A k \in 1..Len(glob_result) : Len(str(glob_result[k].frame)) <= ZFILL_WIDTH)
    => C19_ListingIsNaturalNumeric

\* =========================================================================
\* Properties of the degree of parallelism (SpecPool, SpecSel)
\* =========================================================================
\* max(1, floor(cpu / 8))
AnEighthOfTheCores(cpu) ==
  IF cpu \div PROPORTION_OF_CORES_DEN < 1 THEN 1 ELSE cpu \div PROPORTION_OF_CORES_DEN

\* C21: at every moment of the alignment phase at most max(1, floor(cpu_count / 8))
\* per-frame alignment jobs are running, and the parallel degree the driver
\* displays is that number.
C21_AnEighthOfTheCoresAtOnce ==
  /\ pc = "align" => Cardinality(RunningTasks) <= AnEighthOfTheCores(cpu_count)
  /\ displayed_parallel_jobs # NotDisplayed =>
       displayed_parallel_jobs = AnEighthOfTheCores(cpu_count)

\* what the scheduler does bound: one running job per CPU
C21_OneRunningJobPerCpu ==
  pc = "align" => Cardinality(RunningTasks) <= cpu_count

\* two jobs are running at once
C21_TwoRunning == pc = "align" /\ Cardinality(RunningTasks) = 2

\* ceil(cpu / 2)
HalfRoundedUp(cpu) == (cpu + 1) \div 2

\* C22: for every cpu_count >= 1 the number of workers the driver requests for
\* the NCC sweep is ceil(cpu_count / 2).
C22_HalfTheCoresRoundedUp ==
  selector_ran => njobs = HalfRoundedUp(cpu_count)

\* the request is half the CPUs rounded one way or the other
C22_HalfTheCoresRounded ==
  selector_ran => njobs \in {cpu_count \div 2, HalfRoundedUp(cpu_count)}

\* =========================================================================
\* Properties of get_number_of_possible_jobs (SpecJobs)
\* =========================================================================
\* the available memory in GB, as the function reports it
AvailMemGb == PyRoundHalf(virtual_memory_available)

\* min(floor(mem / min_mem), floor(threads / min_threads)), 1 when that is 0
ScarcerResource(paradigm) ==
  LET n == Min(AvailMemGb \div ProcessMemory(paradigm),
               cpu_count \div ProcessThreads(paradigm))
  IN  IF n = 0 THEN 1 ELSE n

\* C23: get_number_of_possible_jobs returns min(floor(avail_mem_gb /
\* min_mem_per_job_gb), floor(avail_threads / min_threads_per_job)) with the
\* minima of the paradigm, 1 when that minimum is 0: 8 jobs for 64 GB and 16
\* threads with rigid.
C23_JobsOfTheScarcerResource ==
  pc = "jobs_returned" => number_of_jobs = ScarcerResource(registration)

\* what the function returns on every machine of the model
C23_OneJobWhateverTheMachine ==
  pc = "jobs_returned" => number_of_jobs = 1

\* =========================================================================
\* Properties of the split directory and of the order of the steps (Spec)
\* =========================================================================
Assembled == {"copyref", "copynon", "merge", "done"}

\* C24: no step of the pipeline (NCC sweep, alignment jobs, transform move,
\* copies, merge) writes, moves or deletes a frame volume of the split
\* directory: once the normaliser has filled it, its frame files stay, and
\* after the transform move it holds exactly them, the reference among them.
C24_SplitFramesUntouched ==
  /\ split_dir # {} => AllFrameFiles \subseteq split_dir
  /\ \A inv \in invocations : inv.cmd.writes \cap AllFrameFiles = {}
  /\ (transforms_dir \cup ncc_dir \cup moco_dir) \cap AllFrameFiles = {}
  /\ pc \in Assembled => split_dir = AllFrameFiles /\ reference_file \in split_dir

\* a deformable run after an NCC sweep has moved its transforms and merged
C24_Witness ==
  /\ pc = "done" /\ registration = "deformable" /\ selector_ran
  /\ transforms_dir # {} /\ moving_frames # <<>> /\ non_moco_frames # <<>>
  /\ split_dir = AllFrameFiles

\* the invocations of the job of frame f, and the k-th of them
StepsOf(f) == {inv \in invocations : inv.job = f}
StepAt(f, k) == {inv \in StepsOf(f) : inv.k = k}

\* C25: within one per-frame job the engine is invoked in a fixed order:
\* registration before resampling; for deformable the affine step, then the
\* deformable step initialised with the affine matrix of that frame, then a
\* resample that lists the warp before the affine matrix.  Rigid uses 6
\* degrees of freedom and writes <moving>_rigid.mat, affine uses 12 and writes
\* <moving>_affine.mat.
C25_StepsOfAJobInOrder ==
  \A inv \in invocations :
    LET f == inv.job
        c == inv.cmd
        last == IF registration = "deformable" THEN 3 ELSE 2
    IN  /\ StepAt(f, inv.k) = {inv}
        /\ c.step = "rigid" =>
             /\ registration = "rigid" /\ inv.k = 1
             /\ c.dof = 6 /\ c.writes = {WithSuffix(f, "_rigid.mat")}
        /\ c.step = "affine" =>
             /\ registration \in {"affine", "deformable"} /\ inv.k = 1
             /\ c.dof = 12 /\ c.writes = {WithSuffix(f, "_affine.mat")}
        /\ c.step = "deformable" =>
             /\ registration = "deformable" /\ inv.k = 2
             /\ c.it = WithSuffix(f, "_affine.mat")
             /\ \E a \in StepAt(f, 1) : a.cmd.step = "affine" /\ c.it \in a.cmd.writes
        /\ c.step = "resample" =>
             /\ inv.k = last
             /\ \A k \in 1..(last - 1) :
                  \E reg \in StepAt(f, k) : reg.cmd.step \in RegistrationSteps
             /\ c.r = CASE registration = "rigid" -> <<WithSuffix(f, "_rigid.mat")>>
                        [] registration = "affine" -> <<WithSuffix(f, "_affine.mat")>>
                        [] registration = "deformable" ->
                             <<WithSuffix(f, "_warp.nii.gz"), WithSuffix(f, "_affine.mat")>>

\* a deformable job has run its three steps, all of them exiting zero
C25_Witness ==
  /\ registration = "deformable"
  /\ \E inv \in invocations :
       /\ inv.cmd.step = "resample" /\ inv.ok /\ inv.k = 3
       /\ \A s \in StepsOf(inv.job) : s.ok

\* a rigid job has run its two steps
C25_WitnessRigid ==
  /\ registration = "rigid"
  /\ \E inv \in invocations : inv.cmd.step = "resample" /\ inv.ok /\ inv.k = 2

\* =========================================================================
\* Properties of ImageConverter.convert (SpecConvert)
\* =========================================================================
\* C26: convert splits every 4-D volume among the converted files, whatever
\* their number and order: when it returns, every file that was not split is
\* 3-D, so no 4-D file is left in the list the single-3-D check counts.
C26_Every4dFileIsSplit ==
  pc = "converted" =>
    \A k \in 1..Len(nifti_files) : nifti_files[k].shape = 3

\* a file that was split has left the list, and only 4-D files are split
C26_SplitFilesLeaveTheList ==
  /\ split4d_calls \cap Range(nifti_files) = {}
  /\ \A file \in split4d_calls : file.shape = 4

\* =========================================================================
\* Properties of splitting and merging again (SpecSort)
\* =========================================================================
\* the files split4d wrote, as opposed to the moco_ files
SplitNames == \A k \in 1..Len(glob_result) : glob_result[k].pre = ""

\* the files in the order of the time points they were split from
TemporalOrder(files) == SortSeq(files, LAMBDA a, b : a.frame < b.frame)

\* C27: split4d numbers the files of a volume of T time points 0..T-1 in
\* temporal order, and listing them with get_files, as merge3d does, gives the
\* frames back in that order, for every T >= 2.
C27_SplitThenMergeKeepsTheOrder ==
  (pc = "sorted" /\ SplitNames) => get_files_result = TemporalOrder(glob_result)

\* the same for the volumes of at most 10^ZFILL_WIDTH time points
C27_HoldsUpToTenThousandFrames ==
  (\A k \in 1..Len(glob_result) : Len(str(glob_result[k].frame)) <= ZFILL_WIDTH)
    => C27_SplitThenMergeKeepsTheOrder

\* =========================================================================
\* Properties of the legacy selector (SpecLegacy)
\* =========================================================================
\* positions, in the full sequence, of the moving frames above the threshold
LegacyAbove ==
  {i \in Frames \ {reference_frame_index} :
     LegacyAboveThreshold(ncc_mean[i], max_observed_ncc(mean_intensities))}

\* C28: for every position of the reference in the sequence, the legacy
\* determine_candidate_frames returns the index in the full original sequence
\* of the first frame whose mean NCC exceeds the threshold, not its index among
\* the moving frames.
C28_IndexInTheFullSequence ==
  pc = "legacy_returned" =>
    /\ start_frame \in LegacyAbove
    /\ \A i \in LegacyAbove : start_frame <= i

\* the same when no frame before the returned one is the reference
C28_HoldsWhenTheReferenceComesLater ==
  (pc = "legacy_returned" /\ reference_frame_index > start_frame)
    => C28_IndexInTheFullSequence

\* every alignment job has run its last step
EveryJobFinished ==
  /\ DOMAIN jobs = Range(moving_frames)
  /\ \A f \in DOMAIN jobs :
       /\ jobs[f] = "done"
       /\ \E inv \in StepsOf(f) : inv.cmd.step = "resample"

\* C29: the assembly starts only after every alignment job has finished: no
\* transform is in the transforms directory, and no moco_ listing has been
\* made for the merge, while a registration or resample step of a frame is
\* running or still to run; during the alignment no transform has been moved.
C29_AssemblyAfterEveryJob ==
  /\ pc \in AfterAlign => EveryJobFinished
  /\ (transforms_dir # {} \/ "transforms" \in dirs \/ files_to_merge # <<>>)
       => EveryJobFinished
  /\ pc = "align" => transforms_dir = {} /\ files_to_merge = <<>>

\* main has got past align with two jobs, each of which ran both its steps
C29_Witness ==
  /\ pc = "clean"
  /\ Cardinality(DOMAIN jobs) = 2
  /\ \A f \in DOMAIN jobs : Cardinality(StepsOf(f)) >= 2

\* the start index main has assigned lies behind the reference or outside the list
StartPastTheReference ==
  /\ start_frame # NoIndex
  /\ reference_file # NoFile
  /\ \/ start_frame > PyListIndex(org_nifti_files, reference_file)
     \/ start_frame >= Len(org_nifti_files)

\* C30: when the start index, given or selected, is greater than the position
\* of the reference frame or not smaller than the number of frames, the driver
\* stops with an error before it creates the moco directory: no alignment job
\* is launched, no moco_ file is written and nothing is merged.
C30_StartPastTheReferenceStops ==
  StartPastTheReference =>
    /\ pc \in {"split", "crashed"}
    /\ pc = "crashed" => exception = ValueError /\ exit_code = 1
    /\ "moco" \notin dirs
    /\ jobs = <<>> /\ invocations = {}
    /\ moco_dir = {} /\ moco_content = <<>> /\ files_to_merge = <<>>

\* the selector has chosen a frame behind the reference and main has stopped
C30_Witness ==
  /\ StartPastTheReference /\ selector_ran
  /\ start_frame < Len(org_nifti_files)
  /\ pc = "crashed" /\ exception = ValueError

\* the user has given the number of frames as the start index
C30_WitnessGiven ==
  /\ StartPastTheReference /\ start_supplied
  /\ start_frame = Len(org_nifti_files)
  /\ pc = "crashed" /\ exception = ValueError

====
